---- MODULE Spec2Model ----
(***************************************************************************)
(* Model of the GeoJSON -> intermediate ("proto") feature conversion of    *)
(* loaders.gl (forked from geojson-vt): convertFeatures, convertFeature,   *)
(* convertPoint, convertLine, convertLines, projectX and projectY.         *)
(*                                                                         *)
(* Numbers.  The program computes in IEEE doubles on the unit square.  The *)
(* model keeps projected coordinates on an integer grid of 1/Scale of the  *)
(* unit square.  Longitudes are multiples of 5 degrees, so projectX is     *)
(* exact and even; projectY is the Mercator formula tabulated on the       *)
(* latitudes the inputs use, rounded to the nearest even grid value, so    *)
(* that the halved cross products of the area sum stay exact.  The lines   *)
(* of the inputs have segments whose Euclidean length is an integer on     *)
(* the grid.                                                               *)
(*                                                                         *)
(* A JavaScript array is a map from keys to values whose length is one     *)
(* more than its largest non-negative key: a buffer is modelled as a       *)
(* function with a finite set of integer keys, so that writes beyond the   *)
(* end or at a negative key are represented as the program performs them.  *)
(*                                                                         *)
(* Inputs.  A feature carries a properties object (possibly without the    *)
(* promoted key); only the wrapper convertFeatures builds around a bare    *)
(* geometry has none.                                                      *)
(***************************************************************************)
EXTENDS Integers, Sequences, FiniteSets, TLC

(* Bounds of the model *)
MaxFeatures == 2

(* Grid resolution of the projected unit square *)
Scale == 144

----------------------------------------------------------------------------
(* JavaScript values *)

Undefined == <<"undefined", 0>>

Val(n) == <<"value", n>>

Abs(n) == IF n < 0 THEN -n ELSE n

(* Math.sqrt on the grid: the integer root of a perfect square, rounded   *)
(* down otherwise; bound is any upper limit of the root                   *)
Sqrt(n, bound) == CHOOSE r \in 0..bound : r * r <= n /\ n < (r + 1) * (r + 1)

(* Array.prototype.length *)
ArrayLength(out) ==
    LET keys == {k \in DOMAIN out : k >= 0}
    IN IF keys = {} THEN 0 ELSE (CHOOSE k \in keys : \A m \in keys : m <= k) + 1

EmptyArray == [k \in {} |-> 0]

(* out[idx] = v *)
ArraySet(out, idx, v) == (idx :> v) @@ out

(* out.push(a, b, c) *)
Push3(out, a, b, c) ==
    LET n == ArrayLength(out)
    IN (n :> a) @@ ((n + 1) :> b) @@ ((n + 2) :> c) @@ out

----------------------------------------------------------------------------
(* Projector *)

projectX(x) == (x * Scale) \div 360 + Scale \div 2

(* 0.5 - 0.25 * log((1 + sin) / (1 - sin)) / PI before clamping, on the    *)
(* grid; at the poles the quotient is Infinity or 0 and the result is      *)
(* -Infinity or +Infinity, kept here as values far outside the square      *)
MercatorY(y) ==
    CASE y = 90 -> -(1000 * Scale)
      [] y = 89 -> -36
      [] y = 84 -> 4
      [] y = 82 -> 12
      [] y = 81 -> 14
      [] y = 78 -> 20
      [] y = 0 -> Scale \div 2
      [] y = -78 -> 124
      [] y = -89 -> 180
      [] y = -90 -> 1000 * Scale

projectY(y) ==
    LET y2 == MercatorY(y)
    IN IF y2 < 0 THEN 0 ELSE IF y2 > Scale THEN Scale ELSE y2

----------------------------------------------------------------------------
(* Simplifier (simplify-path): assigns a significance to vertices strictly *)
(* between first and last.  mode selects the significances it assigns:     *)
(* with tolerance 0 every interior vertex is marked with SigKept;          *)
(* otherwise "drop" leaves them all at 0 and "some" marks every second     *)
(* one.                                                                    *)

SigKept == 2

SimplifierModes == {"drop", "some"}

simplify(out, first, last, sqTolerance, mode) ==
    LET interior == {k \in DOMAIN out :
                        /\ k > first + 2 /\ k < last
                        /\ (k - first) % 3 = 2}
        marked == IF mode = "drop" /\ sqTolerance.num # 0 THEN {}
                  ELSE IF mode = "some" /\ sqTolerance.num # 0
                       THEN {k \in interior : ((k - first) \div 3) % 2 = 1}
                       ELSE interior
    IN [k \in DOMAIN out |-> IF k \in marked THEN SigKept ELSE out[k]]

----------------------------------------------------------------------------
(* RingFlattener *)

convertPoint(coords, out) == Push3(out, projectX(coords[1]), projectY(coords[2]), 0)

(* the loop of convertLine from iteration j on; st = [out, x0, y0, size] *)
RECURSIVE convertLineLoop(_, _, _, _)
convertLineLoop(ring, j, st, isPolygon) ==
    IF j >= Len(ring) THEN st
    ELSE LET x == projectX(ring[j + 1][1])
             y == projectY(ring[j + 1][2])
             step == IF j > 0
                     THEN IF isPolygon
                          THEN (st.x0 * y - x * st.y0) \div 2
                          ELSE Sqrt((x - st.x0) * (x - st.x0) + (y - st.y0) * (y - st.y0),
                                    Abs(x - st.x0) + Abs(y - st.y0))
                     ELSE 0
         IN convertLineLoop(ring, j + 1,
                [out |-> Push3(st.out, x, y, 0), x0 |-> x, y0 |-> y,
                 size |-> st.size + step], isPolygon)

(* the last vertex left as the Simplifier returned it *)
convertLineLastUnpinned(ring, out, tolerance, isPolygon, mode) ==
    LET st == convertLineLoop(ring, 0, [out |-> out, x0 |-> 0, y0 |-> 0, size |-> 0], isPolygon)
        last == ArrayLength(st.out) - 3
        pinned == ArraySet(st.out, 2, 1)
        simplified == simplify(pinned, 0, last, tolerance, mode)
    IN [buf |-> simplified, size |-> Abs(st.size), start |-> 0, end |-> Abs(st.size),
        tolerance |-> tolerance, atSimplify |-> pinned, last |-> last]

(* both endpoints pinned before the Simplifier is invoked *)
convertLineBothPinnedFirst(ring, out, tolerance, isPolygon, mode) ==
    LET st == convertLineLoop(ring, 0, [out |-> out, x0 |-> 0, y0 |-> 0, size |-> 0], isPolygon)
        last == ArrayLength(st.out) - 3
        pinned == ArraySet(ArraySet(st.out, 2, 1), last + 2, 1)
        simplified == simplify(pinned, 0, last, tolerance, mode)
    IN [buf |-> simplified, size |-> Abs(st.size), start |-> 0, end |-> Abs(st.size),
        tolerance |-> tolerance, atSimplify |-> pinned, last |-> last]

(* the signed sum stored without Math.abs *)
convertLineSigned(ring, out, tolerance, isPolygon, mode) ==
    LET st == convertLineLoop(ring, 0, [out |-> out, x0 |-> 0, y0 |-> 0, size |-> 0], isPolygon)
        last == ArrayLength(st.out) - 3
        pinned == ArraySet(st.out, 2, 1)
        simplified == simplify(pinned, 0, last, tolerance, mode)
        final == ArraySet(simplified, last + 2, 1)
    IN [buf |-> final, size |-> st.size, start |-> 0, end |-> st.size,
        tolerance |-> tolerance, atSimplify |-> pinned, last |-> last]

(* lines 123-152; tolerance, atSimplify and last record the call of the    *)
(* Simplifier: the tolerance handed to it, the buffer as it was when the   *)
(* Simplifier was invoked and the index of the last vertex                 *)
convertLine(ring, out, tolerance, isPolygon, mode) ==
    LET st == convertLineLoop(ring, 0, [out |-> out, x0 |-> 0, y0 |-> 0, size |-> 0], isPolygon)
        last == ArrayLength(st.out) - 3
        pinned == ArraySet(st.out, 2, 1)
        simplified == simplify(pinned, 0, last, tolerance, mode)
        final == ArraySet(simplified, last + 2, 1)
    IN [buf |-> final, size |-> Abs(st.size), start |-> 0, end |-> Abs(st.size),
        tolerance |-> tolerance, atSimplify |-> pinned, last |-> last]

convertLines(rings, tolerance, isPolygon, mode) ==
    [i \in 1..Len(rings) |-> convertLine(rings[i], EmptyArray, tolerance, isPolygon, mode)]

----------------------------------------------------------------------------
(* ToleranceCalculator *)

(* 1 << n: the shift count is taken modulo 32 and the result is a signed   *)
(* 32-bit integer; the power of two is kept as its sign and exponent       *)
ShiftLeft1(n) == [neg |-> n % 32 = 31, exp |-> n % 32]

(* the power of two 2^n of the reals, in the same representation *)
PowerOfTwo(n) == [neg |-> FALSE, exp |-> n]

(* Math.pow(tolerance / (pow2 * extent), 2), the rational                  *)
(* num / (2^exp * den); the sign of pow2 is squared away and a zero        *)
(* numerator gives 0 whatever the denominator is                           *)
SquaredQuotient(tolerance, pow2, extent) ==
    IF tolerance = 0 THEN [num |-> 0, exp |-> 0, den |-> 1]
    ELSE [num |-> tolerance * tolerance, exp |-> 2 * pow2.exp, den |-> extent * extent]

toleranceOf(options) ==
    SquaredQuotient(options.tolerance, ShiftLeft1(options.maxZoom), options.extent)

----------------------------------------------------------------------------
(* FeatureConverter *)

Null == [type |-> "null", coordinates |-> <<>>, geometries |-> <<>>]

(* the check of line 56 left out *)
NoGeometryUnchecked(geojson) == FALSE

(* !geojson.geometry *)
NoGeometry(geojson) == geojson.geometry.type = "null"

(* geojson.properties[key]; properties is <<"object", map>> *)
GetProperty(properties, key) ==
    IF key \in DOMAIN properties[2] THEN properties[2][key] ELSE Undefined

(* index || 0 *)
IndexOrZero(index) == IF index = Undefined THEN 0 ELSE index[2]

(* an explicit id taking precedence over promoteId and generateId *)
resolveIdExplicitFirst(geojson, options, index) ==
    IF geojson.id # Undefined THEN geojson.id
    ELSE IF options.promoteId # ""
         THEN GetProperty(geojson.properties, options.promoteId)
         ELSE IF options.generateId THEN Val(IndexOrZero(index)) ELSE Undefined

(* lines 64-69 of convertFeature: the id given to the emitted features;    *)
(* only evaluated when promoteId is unset or properties is an object       *)
resolveId(geojson, options, index) ==
    IF options.promoteId # ""
    THEN GetProperty(geojson.properties, options.promoteId)
    ELSE IF options.generateId
         THEN Val(IndexOrZero(index))
         ELSE geojson.id

(* createFeature of proto-feature; path is the position of the emitting    *)
(* geometry in the input (feature index, child indices, line index), kept  *)
(* for the statements about order                                          *)
createFeature(id, type, geometry, tags, path) ==
    [id |-> id, type |-> type, geometry |-> geometry, tags |-> tags, path |-> path]

(* the unsupported kind skipped instead of thrown *)
ThrowSwallowed(acc, error) == acc

Throw(acc, error) == [acc EXCEPT !.err = error]

(* the exploded lines keeping the kind of the source geometry *)
RECURSIVE explodeLinesKeepingType(_, _, _, _, _, _, _, _)
explodeLinesKeepingType(acc, coords, k, id, tags, tolerance, path, mode) ==
    IF k > Len(coords) THEN acc
    ELSE explodeLinesKeepingType(
            [acc EXCEPT !.features = Append(@,
                createFeature(id, "MultiLineString",
                    convertLine(coords[k], EmptyArray, tolerance, FALSE, mode),
                    tags, Append(path, k - 1)))],
            coords, k + 1, id, tags, tolerance, path, mode)

(* lines 81-85: one LineString feature per line *)
RECURSIVE explodeLines(_, _, _, _, _, _, _, _)
explodeLines(acc, coords, k, id, tags, tolerance, path, mode) ==
    IF k > Len(coords) THEN acc
    ELSE explodeLines(
            [acc EXCEPT !.features = Append(@,
                createFeature(id, "LineString",
                    convertLine(coords[k], EmptyArray, tolerance, FALSE, mode),
                    tags, Append(path, k - 1)))],
            coords, k + 1, id, tags, tolerance, path, mode)

RECURSIVE convertMultiPoint(_, _, _)
convertMultiPoint(coords, k, out) ==
    IF k > Len(coords) THEN out
    ELSE convertMultiPoint(coords, k + 1, convertPoint(coords[k], out))

RECURSIVE convertFeature(_, _, _, _, _, _)
RECURSIVE convertGeometries(_, _, _, _, _, _, _, _, _)

(* acc = [features, err]: the output array and the exception thrown, ""    *)
(* when none; a call after an exception does nothing, which is how the     *)
(* exception leaves the enclosing loops                                    *)
convertFeature(acc, geojson, options, index, path, mode) ==
    IF acc.err # "" THEN acc
    ELSE IF NoGeometry(geojson) THEN acc
    ELSE IF options.promoteId # "" /\ geojson.properties = Undefined
    THEN Throw(acc, "TypeError")
    ELSE
      LET coords == geojson.geometry.coordinates
          type == geojson.geometry.type
          tolerance == toleranceOf(options)
          id == resolveId(geojson, options, index)
          emit(geometry) ==
              [acc EXCEPT !.features = Append(@,
                  createFeature(id, type, geometry, geojson.properties, path))]
      IN CASE type = "Point" -> emit(convertPoint(coords, EmptyArray))
           [] type = "MultiPoint" -> emit(convertMultiPoint(coords, 1, EmptyArray))
           [] type = "LineString" ->
                emit(convertLine(coords, EmptyArray, tolerance, FALSE, mode))
           [] type = "MultiLineString" ->
                IF options.lineMetrics
                THEN explodeLines(acc, coords, 1, id, geojson.properties,
                                  tolerance, path, mode)
                ELSE emit(convertLines(coords, tolerance, FALSE, mode))
           [] type = "Polygon" -> emit(convertLines(coords, tolerance, TRUE, mode))
           [] type = "MultiPolygon" ->
                emit([p \in 1..Len(coords) |->
                        convertLines(coords[p], tolerance, TRUE, mode)])
           [] type = "GeometryCollection" ->
                convertGeometries(acc, geojson.geometry.geometries, 1, id,
                                  geojson.properties, options, index, path, mode)
           [] OTHER -> Throw(acc, "Error")

(* a wrapper feature emitted for the collection after its children *)
RECURSIVE convertGeometriesWrapped(_, _, _, _, _, _, _, _, _)
convertGeometriesWrapped(acc, geometries, k, id, properties, options, index, path, mode) ==
    IF k > Len(geometries)
    THEN IF acc.err # "" THEN acc
         ELSE [acc EXCEPT !.features = Append(@,
                  createFeature(id, "GeometryCollection", <<>>, properties, path))]
    ELSE convertGeometriesWrapped(
            convertFeature(acc,
                [id |-> id, geometry |-> geometries[k], properties |-> properties],
                options, index, Append(path, k - 1), mode),
            geometries, k + 1, id, properties, options, index, path, mode)

(* the children visited from the last to the first *)
RECURSIVE convertGeometriesReversed(_, _, _, _, _, _, _, _, _)
convertGeometriesReversed(acc, geometries, k, id, properties, options, index, path, mode) ==
    IF k > Len(geometries) THEN acc
    ELSE convertGeometriesReversed(
            convertFeature(acc,
                [id |-> id, geometry |-> geometries[Len(geometries) + 1 - k],
                 properties |-> properties],
                options, index, Append(path, Len(geometries) - k), mode),
            geometries, k + 1, id, properties, options, index, path, mode)

(* lines 99-110: the loop over geojson.geometry.geometries *)
convertGeometries(acc, geometries, k, id, properties, options, index, path, mode) ==
    IF k > Len(geometries) THEN acc
    ELSE convertGeometries(
            convertFeature(acc,
                [id |-> id, geometry |-> geometries[k], properties |-> properties],
                options, index, Append(path, k - 1), mode),
            geometries, k + 1, id, properties, options, index, path, mode)

----------------------------------------------------------------------------
(* Inputs: coordinates are <<longitude, latitude>> in degrees *)

CornerA == <<-180, 84>>
CornerB == <<-180, 81>>
CornerC == <<-155, 81>>
CornerD == <<-155, 84>>

(* projects to [[0,4],[0,14],[10,14],[10,4],[0,4]]: the square of side 10, *)
(* wound so that its shoelace sum is negative                              *)
SquareRing == <<CornerA, CornerB, CornerC, CornerD, CornerA>>

(* the same square wound the other way *)
SquareRingReversed == <<CornerA, CornerD, CornerC, CornerB, CornerA>>

(* projects to [[0,4],[6,12],[6,20]]: segments of length 10 and 8 *)
BentLine == <<CornerA, <<-165, 82>>, <<-165, 78>>>>

(* projects to [[0,4],[10,4]] *)
ShortLine == <<CornerA, CornerD>>

Geometry(type, coordinates) ==
    [type |-> type, coordinates |-> coordinates, geometries |-> <<>>]

GeometryCollection(geometries) ==
    [type |-> "GeometryCollection", coordinates |-> <<>>, geometries |-> geometries]

GPoint == Geometry("Point", <<0, 0>>)
GMultiPoint == Geometry("MultiPoint", <<<<0, 90>>, <<180, -89>>>>)
GLineString == Geometry("LineString", BentLine)
GMultiLineString == Geometry("MultiLineString", <<BentLine, ShortLine>>)
GPolygon == Geometry("Polygon", <<SquareRing, SquareRingReversed>>)
GMultiPolygon == Geometry("MultiPolygon", <<<<SquareRingReversed>>, <<SquareRing>>>>)
GDegenerate == Geometry("MultiLineString", <<<<>>, <<CornerA>>>>)
GCircle == Geometry("Circle", <<0, 0>>)
GCollection == GeometryCollection(<<GPoint, GLineString, GPolygon>>)
GNested == GeometryCollection(<<GeometryCollection(<<GMultiLineString, GPoint>>), GMultiPoint>>)
GCollectionCircle == GeometryCollection(<<GPoint, GeometryCollection(<<GLineString, GCircle>>)>>)

SupportedGeometries ==
    {GPoint, GMultiPoint, GLineString, GMultiLineString, GPolygon, GMultiPolygon,
     GDegenerate, GCollection, GNested}

Geometries == SupportedGeometries \cup {GCircle, GCollectionCircle}

Object(map) == <<"object", map>>

Feature(id, geometry, properties) ==
    [type |-> "Feature", id |-> id, geometry |-> geometry, properties |-> properties]

PropertyMaps == {Object([uid |-> Val(9), name |-> Val(1)]), Object([name |-> Val(1)])}

ExplicitIds == {Undefined, Val(7)}

(* every single feature the model converts *)
Features ==
    {Feature(id, g, props) : id \in ExplicitIds, g \in Geometries \cup {Null},
                             props \in PropertyMaps}

(* the features the collections are made of *)
CollectionFeatures ==
    {Feature(Val(7), GPoint, Object([uid |-> Val(9), name |-> Val(1)])),
     Feature(Val(7), Null, Object([uid |-> Val(9), name |-> Val(1)])),
     Feature(Undefined, GMultiLineString, Object([uid |-> Val(9), name |-> Val(1)])),
     Feature(Undefined, GPolygon, Object([name |-> Val(1)])),
     Feature(Undefined, GCircle, Object([uid |-> Val(9), name |-> Val(1)])),
     Feature(Val(7), GNested, Object([uid |-> Val(9), name |-> Val(1)])),
     Feature(Undefined, GMultiPoint, Object([name |-> Val(1)])),
     Feature(Val(7), GMultiPolygon, Object([uid |-> Val(9), name |-> Val(1)])),
     Feature(Undefined, GLineString, Object([uid |-> Val(9), name |-> Val(1)]))}

FeatureCollection(features) == [type |-> "FeatureCollection", features |-> features]

FeatureCollections ==
    {FeatureCollection(fs) :
        fs \in UNION {[1..n -> CollectionFeatures] : n \in 0..MaxFeatures}}

Inputs == FeatureCollections \cup Features \cup Geometries

MaxZooms == {0, 31, 32}
Tolerances == {0, 3}
Extents == {4096}

Options ==
    [maxZoom : MaxZooms, tolerance : Tolerances, extent : Extents,
     lineMetrics : BOOLEAN, promoteId : {"", "uid"}, generateId : BOOLEAN]

----------------------------------------------------------------------------
(* convertFeatures as a state machine *)

VARIABLES
    data,       \* the argument data
    options,    \* the argument options
    mode,       \* the Simplifier in use
    pc,         \* "call", "loop", "return", "returned" or "thrown"
    i,          \* the loop variable of convertFeatures
    features,   \* the local array features
    err,        \* the exception that left convertFeatures, "" when none
    result      \* the returned array, once pc = "returned"

vars == <<data, options, mode, pc, i, features, err, result>>

Init ==
    /\ data \in Inputs
    /\ options \in Options
    /\ mode \in SimplifierModes
    /\ pc = "call"
    /\ i = 0
    /\ features = <<>>
    /\ err = ""
    /\ result = <<>>

(* the outcome of one call of convertFeature from convertFeatures *)
Called(acc) ==
    /\ features' = acc.features
    /\ err' = acc.err
    /\ UNCHANGED <<data, options, mode, result>>

(* line 21: data.type === 'FeatureCollection', entering the loop *)
EnterCollection ==
    /\ pc = "call"
    /\ data.type = "FeatureCollection"
    /\ pc' = "loop"
    /\ i' = 0
    /\ UNCHANGED <<data, options, mode, features, err, result>>

(* lines 22-24: one iteration of the loop *)
ConvertNext ==
    /\ pc = "loop"
    /\ i < Len(data.features)
    /\ LET acc == convertFeature([features |-> features, err |-> ""],
                                 data.features[i + 1], options, Val(i), <<i>>, mode)
       IN /\ Called(acc)
          /\ pc' = IF acc.err # "" THEN "thrown" ELSE "loop"
          /\ i' = IF acc.err # "" THEN i ELSE i + 1

(* line 22: the loop ends *)
LeaveCollection ==
    /\ pc = "loop"
    /\ i >= Len(data.features)
    /\ pc' = "return"
    /\ UNCHANGED <<data, options, mode, i, features, err, result>>

(* lines 25-26: a single feature, converted without an index *)
ConvertSingle ==
    /\ pc = "call"
    /\ data.type = "Feature"
    /\ LET acc == convertFeature([features |-> features, err |-> ""],
                                 data, options, Undefined, <<0>>, mode)
       IN /\ Called(acc)
          /\ pc' = IF acc.err # "" THEN "thrown" ELSE "return"
    /\ UNCHANGED i

(* lines 27-30: a bare geometry, wrapped as {geometry: data} *)
ConvertBare ==
    /\ pc = "call"
    /\ data.type \notin {"FeatureCollection", "Feature"}
    /\ LET acc == convertFeature([features |-> features, err |-> ""],
                                 [id |-> Undefined, geometry |-> data,
                                  properties |-> Undefined],
                                 options, Undefined, <<0>>, mode)
       IN /\ Called(acc)
          /\ pc' = IF acc.err # "" THEN "thrown" ELSE "return"
    /\ UNCHANGED i

(* line 32: return features *)
Return ==
    /\ pc = "return"
    /\ result' = features
    /\ pc' = "returned"
    /\ UNCHANGED <<data, options, mode, i, features, err>>

Next ==
    \/ EnterCollection
    \/ ConvertNext
    \/ LeaveCollection
    \/ ConvertSingle
    \/ ConvertBare
    \/ Return

Spec == Init /\ [][Next]_vars

TypeOK ==
    /\ pc \in {"call", "loop", "return", "returned", "thrown"}
    /\ err \in {"", "Error", "TypeError"}
    /\ (pc = "thrown") = (err # "")
    /\ result = IF pc = "returned" THEN features ELSE <<>>

----------------------------------------------------------------------------
(* The input seen from an emitted feature *)

IsCollection == data.type = "FeatureCollection"

(* the top-level feature an emitted feature comes from *)
SourceFeature(f) ==
    IF IsCollection THEN data.features[f.path[1] + 1]
    ELSE IF data.type = "Feature" THEN data
    ELSE [id |-> Undefined, geometry |-> data, properties |-> Undefined]

(* the position of that feature in the collection, 0 outside a collection *)
SourcePosition(f) == IF IsCollection THEN f.path[1] ELSE 0

Emitted == {features[k] : k \in 1..Len(features)}

----------------------------------------------------------------------------
----------------------------------------------------------------------------
SupportedTypes ==
    {"Point", "MultiPoint", "LineString", "MultiLineString", "Polygon",
     "MultiPolygon", "GeometryCollection"}

(* the geometry, or a child of it at any depth, has an unsupported kind *)
RECURSIVE ReachesUnsupported(_)
ReachesUnsupported(g) ==
    /\ g.type # "null"
    /\ \/ g.type \notin SupportedTypes
       \/ /\ g.type = "GeometryCollection"
          /\ \E k \in 1..Len(g.geometries) : ReachesUnsupported(g.geometries[k])

InputReachesUnsupported ==
    IF IsCollection
    THEN \E k \in 1..Len(data.features) : ReachesUnsupported(data.features[k].geometry)
    ELSE IF data.type = "Feature" THEN ReachesUnsupported(data.geometry)
    ELSE ReachesUnsupported(data)

(* C2: when a geometry of the input, at any position and depth, has an     *)
(* unsupported kind, convert never returns a feature sequence: the loop    *)
(* does not get past the first feature that contains one, and once the    *)
(* call is over it has ended with an exception.                            *)
C2_UnsupportedAborts ==
    InputReachesUnsupported =>
        /\ pc \notin {"return", "returned"}
        /\ result = <<>>
        /\ pc = "loop" =>
              \A k \in 1..i : ~ReachesUnsupported(data.features[k].geometry)
        /\ pc \notin {"call", "loop"} => pc = "thrown" /\ err # ""

(* the call failed on an unsupported kind after earlier features had been  *)
(* converted *)
C2_Witness ==
    /\ pc = "thrown"
    /\ err = "Error"
    /\ IsCollection
    /\ i >= 1
    /\ Len(features) >= 1
    /\ result = <<>>

----------------------------------------------------------------------------
(* the kinds C3 counts: one output feature each *)
C3_Kinds(g) ==
    \/ g.type \in {"Point", "MultiPoint", "LineString", "Polygon", "MultiPolygon"}
    \/ g.type = "MultiLineString" /\ ~options.lineMetrics

(* the feature's geometry is absent or null *)
Geometryless(f) == f.geometry.type = "null"

C3_Applies ==
    /\ IsCollection
    /\ \A k \in 1..Len(data.features) :
          \/ Geometryless(data.features[k])
          \/ C3_Kinds(data.features[k].geometry)

WithGeometry(n) == {k \in 1..n : ~Geometryless(data.features[k])}

(* C3: in a collection of N features of which M have no geometry and the   *)
(* others are of the kinds above, a feature without geometry raises no     *)
(* error and adds nothing, each other feature adds one, and convert        *)
(* returns exactly N - M features.                                         *)
C3_NoGeometrySkipped ==
    C3_Applies =>
        /\ pc # "thrown"
        /\ pc = "loop" => Len(features) = Cardinality(WithGeometry(i))
        /\ pc = "returned" =>
              Len(result) = Len(data.features)
                            - Cardinality({k \in 1..Len(data.features) :
                                              Geometryless(data.features[k])})

(* a collection with a feature without geometry followed by one with *)
C3_Witness ==
    /\ C3_Applies
    /\ pc = "returned"
    /\ Len(data.features) = 2
    /\ Geometryless(data.features[1])
    /\ ~Geometryless(data.features[2])
    /\ Len(result) = 1

----------------------------------------------------------------------------
(* the geometry an emitted feature was made from: from the geometry of the *)
(* source feature, the path is followed through the collections; rest is   *)
(* what remains of the path, the line index of an exploded line            *)
RECURSIVE GeometryAt(_, _, _)
GeometryAt(g, path, k) ==
    IF g.type = "GeometryCollection" /\ k <= Len(path)
    THEN GeometryAt(g.geometries[path[k] + 1], path, k + 1)
    ELSE [geometry |-> g, rest |-> SubSeq(path, k, Len(path))]

Origin(f) == GeometryAt(SourceFeature(f).geometry, f.path, 2)

(* the id the code gives to the features of a source feature *)
ResolvedIdOf(src, position) ==
    IF options.promoteId # "" THEN GetProperty(src.properties, options.promoteId)
    ELSE IF options.generateId THEN Val(position) ELSE src.id

(* the number of features a geometry is converted to *)
RECURSIVE LeafCount(_)
RECURSIVE LeafCountOfAll(_, _)
LeafCount(g) ==
    CASE g.type = "null" -> 0
      [] g.type = "GeometryCollection" -> LeafCountOfAll(g.geometries, 1)
      [] g.type = "MultiLineString" /\ options.lineMetrics -> Len(g.coordinates)
      [] OTHER -> 1

LeafCountOfAll(geometries, k) ==
    IF k > Len(geometries) THEN 0
    ELSE LeafCount(geometries[k]) + LeafCountOfAll(geometries, k + 1)

(* the top-level features whose conversion is over *)
ConvertedPositions ==
    IF IsCollection THEN 0..(i - 1)
    ELSE IF pc \in {"return", "returned"} THEN {0} ELSE {}

SourceAt(position) ==
    IF IsCollection THEN data.features[position + 1]
    ELSE IF data.type = "Feature" THEN data
    ELSE [id |-> Undefined, geometry |-> data, properties |-> Undefined]

EmittedFor(position) == {k \in 1..Len(features) : features[k].path[1] = position}

(* C4: no emitted feature has kind GeometryCollection or stands for a      *)
(* collection itself; every feature emitted for a child of a collection,   *)
(* at any depth, carries the properties and the resolved id of the         *)
(* enclosing source feature; and a converted collection yields one         *)
(* feature per non-collection child (one per line for an exploded          *)
(* MultiLineString child).                                                 *)
C4_CollectionsExpanded ==
    /\ \A f \in Emitted :
          /\ f.type # "GeometryCollection"
          /\ Origin(f).geometry.type # "GeometryCollection"
          /\ SourceFeature(f).geometry.type = "GeometryCollection" =>
                /\ f.tags = SourceFeature(f).properties
                /\ f.id = ResolvedIdOf(SourceFeature(f), SourcePosition(f))
    /\ \A p \in ConvertedPositions :
          SourceAt(p).geometry.type = "GeometryCollection" =>
              Cardinality(EmittedFor(p)) = LeafCount(SourceAt(p).geometry)

(* a feature with an explicit id whose collection of 3 non-collection      *)
(* children was converted to 3 features with a generated or promoted id    *)
C4_Witness ==
    /\ pc = "returned"
    /\ data.type = "Feature"
    /\ data.geometry = GCollection
    /\ data.id = Val(7)
    /\ options.generateId \/ options.promoteId # ""
    /\ Len(result) = 3
    /\ \A k \in 1..3 : result[k].id = result[1].id /\ result[k].tags = data.properties
    /\ result[1].id # Val(7)

(* a collection nested in a collection was expanded *)
C4_WitnessNested ==
    /\ pc = "returned"
    /\ \E f \in Emitted : Len(f.path) >= 3

----------------------------------------------------------------------------
(* the flattened line holds the projected vertices of ring, in order *)
LineHolds(line, ring) ==
    /\ Len(ring) >= 1 => ArrayLength(line.buf) = 3 * Len(ring)
    /\ \A j \in 1..Len(ring) :
          /\ line.buf[3 * (j - 1)] = projectX(ring[j][1])
          /\ line.buf[3 * (j - 1) + 1] = projectY(ring[j][2])
    /\ line.start = 0
    /\ line.end = line.size

IsPrefix(p, q) == Len(p) <= Len(q) /\ SubSeq(q, 1, Len(p)) = p

(* C5: a MultiLineString of k lines is converted, with lineMetrics, to k   *)
(* consecutive features of kind LineString, the j-th holding the j-th      *)
(* line with its own metric, start and end and carrying the id and         *)
(* properties of the source feature; without lineMetrics, to one feature   *)
(* of kind MultiLineString holding the k lines in order.                   *)
C5_MultiLineString ==
    \A q \in 1..Len(features) :
        LET f == features[q]
            o == Origin(f)
            coords == o.geometry.coordinates
            n == Len(coords)
            at == SubSeq(f.path, 1, Len(f.path) - Len(o.rest))
        IN o.geometry.type = "MultiLineString" =>
            /\ f.tags = SourceFeature(f).properties
            /\ f.id = ResolvedIdOf(SourceFeature(f), SourcePosition(f))
            /\ Cardinality({r \in 1..Len(features) : IsPrefix(at, features[r].path)})
                  = IF options.lineMetrics THEN n ELSE 1
            /\ IF options.lineMetrics
               THEN /\ f.type = "LineString"
                    /\ Len(o.rest) = 1
                    /\ o.rest[1] \in 0..(n - 1)
                    /\ LineHolds(f.geometry, coords[o.rest[1] + 1])
                    /\ \A j \in 0..(n - 1) :
                          /\ q - o.rest[1] + j \in 1..Len(features)
                          /\ features[q - o.rest[1] + j].path = Append(at, j)
               ELSE /\ f.type = "MultiLineString"
                    /\ o.rest = <<>>
                    /\ Len(f.geometry) = n
                    /\ \A j \in 1..n : LineHolds(f.geometry[j], coords[j])

(* a MultiLineString of 2 lines was exploded into 2 LineStrings *)
C5_Witness ==
    /\ pc = "returned"
    /\ data.type = "Feature"
    /\ data.geometry = GMultiLineString
    /\ options.lineMetrics
    /\ Len(result) = 2
    /\ result[1].type = "LineString" /\ result[2].type = "LineString"
    /\ result[1].geometry.size = 18 /\ result[2].geometry.size = 10

(* a MultiLineString of 2 lines was converted to one feature *)
C5_WitnessBundle ==
    /\ pc = "returned"
    /\ data.type = "Feature"
    /\ data.geometry = GMultiLineString
    /\ ~options.lineMetrics
    /\ Len(result) = 1
    /\ result[1].type = "MultiLineString"
    /\ Len(result[1].geometry) = 2

----------------------------------------------------------------------------
(* the flattened rings and lines of an emitted feature *)
Lines(f) ==
    CASE f.type = "LineString" -> {f.geometry}
      [] f.type \in {"MultiLineString", "Polygon"} ->
            {f.geometry[k] : k \in 1..Len(f.geometry)}
      [] f.type = "MultiPolygon" ->
            UNION {{f.geometry[p][k] : k \in 1..Len(f.geometry[p])} :
                      p \in 1..Len(f.geometry)}
      [] OTHER -> {}

IsRing(f) == f.type \in {"Polygon", "MultiPolygon"}

VertexCount(line) == ArrayLength(line.buf) \div 3

FirstSignificance(line) == line.buf[2]

LastSignificance(line) == line.buf[ArrayLength(line.buf) - 1]

(* C6: in every flattened ring or line of at least 2 vertices the          *)
(* significance of the first and of the last vertex is 1, whatever the     *)
(* tolerance and whatever the Simplifier assigned in between.              *)
C6_EndpointsPinned ==
    \A f \in Emitted : \A line \in Lines(f) :
        VertexCount(line) >= 2 =>
            FirstSignificance(line) = 1 /\ LastSignificance(line) = 1

(* with tolerance 0 the Simplifier marked the interior vertex of a line of *)
(* 3 vertices and its endpoints carry 1 *)
C6_Witness ==
    /\ options.tolerance = 0
    /\ \E f \in Emitted : \E line \in Lines(f) :
          /\ VertexCount(line) = 3
          /\ line.buf[5] = SigKept
          /\ FirstSignificance(line) = 1
          /\ LastSignificance(line) = 1

----------------------------------------------------------------------------
(* the vertex j (from 0) of a flattened buffer *)
VertexX(buf, j) == buf[3 * j]
VertexY(buf, j) == buf[3 * j + 1]

(* the sum over the pairs of consecutive vertices j-1, j for j in from..n-1 *)
(* of twice the shoelace term x0*y1 - x1*y0                                *)
RECURSIVE CrossSum(_, _, _)
CrossSum(buf, from, n) ==
    IF from >= n THEN 0
    ELSE VertexX(buf, from - 1) * VertexY(buf, from)
         - VertexX(buf, from) * VertexY(buf, from - 1)
         + CrossSum(buf, from + 1, n)

(* the same sum of the Euclidean distances *)
RECURSIVE DistanceSum(_, _, _)
DistanceSum(buf, from, n) ==
    IF from >= n THEN 0
    ELSE LET dx == VertexX(buf, from) - VertexX(buf, from - 1)
             dy == VertexY(buf, from) - VertexY(buf, from - 1)
         IN Sqrt(dx * dx + dy * dy, Abs(dx) + Abs(dy)) + DistanceSum(buf, from + 1, n)

(* the vertices of a buffer of n vertices *)
Vertices(buf, n) == [j \in 1..n |-> <<VertexX(buf, j - 1), VertexY(buf, j - 1)>>]

(* the square of side 10, [[0,0],[0,10],[10,10],[10,0],[0,0]] moved by     *)
(* (0,4); a closed ring keeps its shoelace sum when moved                  *)
ProjectedSquare == <<<<0, 4>>, <<0, 14>>, <<10, 14>>, <<10, 4>>, <<0, 4>>>>

(* the vertices of the input ring or line, when it has at least one *)
HasVertices(line) == \A k \in 0..(ArrayLength(line.buf) - 1) : k \in DOMAIN line.buf

(* C7: the metric of a ring is the absolute value of half the shoelace sum *)
(* of its projected vertices, hence never negative, and 100 for the square *)
(* of side 10 in either winding; the metric of a line is the sum of the    *)
(* distances between consecutive vertices; start is 0 and end the metric.  *)
C7_Metric ==
    \A f \in Emitted : \A line \in Lines(f) :
        /\ line.size >= 0
        /\ line.start = 0
        /\ line.end = line.size
        /\ HasVertices(line) =>
             /\ IsRing(f) =>
                  2 * line.size = Abs(CrossSum(line.buf, 1, VertexCount(line)))
             /\ ~IsRing(f) =>
                  line.size = DistanceSum(line.buf, 1, VertexCount(line))
             /\ IsRing(f) /\ VertexCount(line) = 5
                /\ Vertices(line.buf, 5) = ProjectedSquare => line.size = 100

(* the square ring, whose shoelace sum is negative, was measured as 100 *)
C7_Witness ==
    \E f \in Emitted : \E line \in Lines(f) :
        /\ IsRing(f)
        /\ VertexCount(line) = 5
        /\ Vertices(line.buf, 5) = ProjectedSquare
        /\ CrossSum(line.buf, 1, 5) = -200
        /\ line.size = 100
        /\ line.end = 100

----------------------------------------------------------------------------
(* C8 as stated: the squared tolerance handed to the Simplifier for every  *)
(* ring and line of a call is (tolerance / (2^maxZoom * extent))^2 with    *)
(* the true power of two.                                                  *)
C8_TruePowerOfTwo ==
    \A f \in Emitted : \A line \in Lines(f) :
        line.tolerance
          = SquaredQuotient(options.tolerance, PowerOfTwo(options.maxZoom), options.extent)

----------------------------------------------------------------------------
(* p comes before q in the order of the input: at the first position       *)
(* where the paths differ, p has the smaller index                         *)
RECURSIVE ComesBefore(_, _, _)
ComesBefore(p, q, k) ==
    /\ k <= Len(p)
    /\ k <= Len(q)
    /\ \/ p[k] < q[k]
       \/ p[k] = q[k] /\ ComesBefore(p, q, k + 1)

(* C9: the emitted features are in the order of the input: every feature   *)
(* comes from a later source feature than the one before it or, within     *)
(* one source feature, from a later child or line.                         *)
C9_OrderPreserved ==
    \A k \in 1..(Len(features) - 1) :
        ComesBefore(features[k].path, features[k + 1].path, 1)

(* two source features, the first a nested collection with an exploded     *)
(* MultiLineString, were converted in turn *)
C9_Witness ==
    /\ pc = "returned"
    /\ IsCollection
    /\ Len(data.features) = 2
    /\ data.features[1].geometry = GNested
    /\ options.lineMetrics
    /\ Len(result) >= 5
    /\ result[Len(result)].path[1] = 1

----------------------------------------------------------------------------
IsBareGeometry == data.type \notin {"FeatureCollection", "Feature"}

(* C10 as stated: a bare geometry of supported kinds is converted without  *)
(* error under every combination of options, and its features have no id   *)
(* unless generateId is set, when the id is 0.                             *)
C10_BareGeometryAccepted ==
    IsBareGeometry /\ ~ReachesUnsupported(data) =>
        /\ pc # "thrown"
        /\ pc = "returned" =>
              /\ Len(result) = LeafCount(data)
              /\ \A f \in Emitted :
                    f.id = IF options.generateId THEN Val(0) ELSE Undefined

----------------------------------------------------------------------------
(* the significance slots of a buffer *)
SignificanceKeys(buf) == {k \in DOMAIN buf : k >= 0 /\ k % 3 = 2}

(* C11 as stated: when the Simplifier is invoked on a ring or line, the    *)
(* significance of the first and of the last vertex both already equal 1.  *)
C11_BothPinnedBeforeSimplify ==
    \A f \in Emitted : \A line \in Lines(f) :
        /\ 2 \in DOMAIN line.atSimplify
        /\ line.atSimplify[2] = 1
        /\ line.last + 2 \in DOMAIN line.atSimplify
        /\ line.atSimplify[line.last + 2] = 1

(* C11 amended: when the Simplifier is invoked, the significance of the    *)
(* first vertex is 1; on a ring or line of at least one vertex it is       *)
(* invoked over [0, last] when every vertex has been projected and         *)
(* appended, while every other significance, that of the last vertex of a  *)
(* line of at least 2 vertices included, is still 0; the last vertex gets  *)
(* its 1 after the Simplifier has returned.                                *)
C11_LastPinnedAfterSimplify ==
    \A f \in Emitted : \A line \in Lines(f) :
        /\ line.atSimplify[2] = 1
        /\ HasVertices(line) =>
             /\ line.last = 3 * (VertexCount(line) - 1)
             /\ DOMAIN line.atSimplify = DOMAIN line.buf
             /\ \A k \in DOMAIN line.buf \ SignificanceKeys(line.buf) :
                   line.atSimplify[k] = line.buf[k]
             /\ \A k \in SignificanceKeys(line.buf) \ {2} : line.atSimplify[k] = 0
             /\ line.buf[line.last + 2] = 1

(* the Simplifier was invoked on a line of 3 vertices whose last           *)
(* significance was 0, marked the vertex in between, and the last vertex   *)
(* was pinned afterwards *)
C11_Witness ==
    \E f \in Emitted : \E line \in Lines(f) :
        /\ VertexCount(line) = 3
        /\ line.last = 6
        /\ line.atSimplify[2] = 1
        /\ line.atSimplify[5] = 0
        /\ line.atSimplify[8] = 0
        /\ line.buf[5] = SigKept
        /\ line.buf[8] = 1

----------------------------------------------------------------------------
(* the buffer has exactly the entries 0 .. 3n-1 *)
HasTriples(buf, n) == DOMAIN buf = 0..(3 * n - 1)

(* a buffer of n points: exactly 3n entries, every significance 0 *)
PointTriples(buf, n) ==
    /\ HasTriples(buf, n)
    /\ \A k \in SignificanceKeys(buf) : buf[k] = 0

(* the flattened rings have the entries of the input rings, one by one *)
RingTriples(lines, rings) ==
    /\ Len(lines) = Len(rings)
    /\ \A j \in 1..Len(rings) : HasTriples(lines[j].buf, Len(rings[j]))

(* C12 as stated: the buffer flattened from a ring or line of n >= 0       *)
(* coordinates has exactly the entries 0 .. 3n-1 and nothing is written    *)
(* outside them, an empty ring giving an empty buffer; a Point has exactly *)
(* 3 entries and a MultiPoint of n coordinates 3n, with every              *)
(* significance 0.                                                         *)
C12_BufferLayout ==
    \A f \in Emitted :
        LET o == Origin(f)
            coords == o.geometry.coordinates
        IN CASE f.type = "Point" -> PointTriples(f.geometry, 1)
             [] f.type = "MultiPoint" -> PointTriples(f.geometry, Len(coords))
             [] f.type = "LineString" ->
                  HasTriples(f.geometry.buf,
                             Len(IF o.rest = <<>> THEN coords ELSE coords[o.rest[1] + 1]))
             [] f.type \in {"MultiLineString", "Polygon"} ->
                  RingTriples(f.geometry, coords)
             [] f.type = "MultiPolygon" ->
                  /\ Len(f.geometry) = Len(coords)
                  /\ \A p \in 1..Len(coords) : RingTriples(f.geometry[p], coords[p])
             [] OTHER -> TRUE

====
